---- MODULE Spec2Model ----
(***************************************************************************)
(* A model of src/src/lock-scroll.ts: the LockScroll class, the module-    *)
(* level state it shares between instances (eventInit, hasPassiveEvents,   *)
(* lockedList, overRangeEventMap), and the part of the host it talks to:   *)
(* the listener lists of the window and of the elements, the selector      *)
(* query, and the dispatch of touchstart / touchmove / touchend events.    *)
(***************************************************************************)
EXTENDS Integers, FiniteSets, Sequences, TLC

VARIABLES
    docExists,          \* isDocumentExist(): a window with a document
    hasPassiveEvents,   \* let hasPassiveEvents (line 29), set by the probe
    selector,           \* this.selector of every instance
    lockedList,         \* const lockedList = new Set<LockScroll>(), in insertion order
    eventInit,          \* let eventInit (line 26)
    overRangeEventMap,  \* const overRangeEventMap = new Map(...)
    windowListeners,    \* the listener list of window
    elListeners,        \* the listener list of every element
    touch,              \* the `touch` object closed over by each tracker
    nextId,             \* the identity of the next function objects: 1 + the lock() calls so far
    classes,            \* the DOM: which simple selectors match which element
    lastCall,           \* history: the most recent lifecycle call per instance
    owner,              \* history: which instance's call created function id
    active,             \* history: targets with a touchstart and no touchend yet
    snapshot,           \* history: the elements each instance's latest lock() matched
    last                \* history: the most recent operation and its outcome

vars == <<docExists, hasPassiveEvents, selector, lockedList, eventInit,
          overRangeEventMap, windowListeners, elListeners, touch, nextId,
          classes, lastCall, owner, active, snapshot, last>>

-----------------------------------------------------------------------------
(* Bounds *)

\* lock() calls in one run
MaxLocks == 2

-----------------------------------------------------------------------------
(* Values *)

Inst == {"i1", "i2"}

\* e1 and e2 are overlay candidates, c1 is a child of e1, bg is the page
Elem == {"e1", "e2", "c1", "bg"}

\* The element whose classes the page changes while the program runs
Mutable == {"e2"}

\* The elements touched while lock() and unlock() calls go on
TargetsMain == {"c1", "e2", "bg"}

\* The elements touched when one tracker is exercised
TargetsTracker == {"c1"}

Undefined == "<undefined>"
NotConstructed == "<not constructed>"
DefaultSelector == ".can-scroll"
Selectors == {".can-scroll", ".a"}

\* new LockScroll(), new LockScroll({}), new LockScroll({selector: ''}),
\* new LockScroll({selector: '.a'})
Opts ==
    {[given |-> FALSE, selector |-> Undefined]}
        \cup {[given |-> TRUE, selector |-> s] : s \in {Undefined, "", ".a"}}

\* JavaScript truthiness of a string-or-undefined value
Truthy(v) == v # Undefined /\ v # ""

\* constructor(opt = { selector: '.can-scroll' }): the default applies to a
\* missing argument only; a falsy opt.selector leaves this.selector unset
Constructor(opt) ==
    LET o == IF opt.given THEN opt ELSE [given |-> TRUE, selector |-> DefaultSelector]
    IN  IF Truthy(o.selector) THEN o.selector ELSE Undefined

\* Touch coordinates and touch-point counts carried by an event
TouchCounts == {0, 1, 2}
TouchCountsMain == {1, 2}
StartPointsMain == {<<100, 100>>}
MovePointsMain == {<<100, 110>>}
MovePointsTouch == {<<100, 101>>, <<100, 110>>}
CoordsFull == {97, 98, 100, 103, 110}
PointsFull == CoordsFull \X CoordsFull
OriginsFull == {<<100, 100>>, <<98, 102>>}

\* Scroll geometry of the element a tracker sits on, read at event time
Geom(st, ch, sh, sl, cw, sw) ==
    [scrollTop |-> st, clientHeight |-> ch, scrollHeight |-> sh,
     scrollLeft |-> sl, clientWidth |-> cw, scrollWidth |-> sw]
\* at the top left, in the middle, at the bottom right, at the top only, at the
\* left only, and with nothing to scroll
GeomsFull ==
    {Geom(0, 300, 900, 0, 300, 900), Geom(300, 300, 900, 300, 300, 900),
     Geom(600, 300, 900, 600, 300, 900), Geom(0, 300, 900, 300, 300, 900),
     Geom(300, 300, 900, 0, 300, 900), Geom(0, 300, 300, 0, 300, 300)}
GeomsMain == {Geom(0, 300, 900, 0, 300, 900)}
NoGeom == Geom(0, 0, 0, 0, 0, 0)

-----------------------------------------------------------------------------
(* The host: listener lists, function identity, selector queries *)

\* A function object. Functions created by different evaluations are different
\* objects: id tells them apart; el is the element a tracker closure was made for
Fn(name, id, el) == [name |-> name, id |-> id, el |-> el]

\* LockScroll.preventDefault is a static method: one object for the whole module
PreventDefaultFn == Fn("preventDefault", 0, "-")

\* this.elTouchStart.bind(this): every call of bind returns a new function object
Bind(name, id) == Fn(name, id, "-")

\* The listener options are a set of key/value pairs; {} stands for undefined
Capture(options) == <<"capture", TRUE>> \in options

\* EventTarget keeps one entry per (type, callback, capture)
Listener(type, fn, options) == [type |-> type, fn |-> fn, capture |-> Capture(options)]
AddEventListener(ls, type, fn, options) == ls \cup {Listener(type, fn, options)}
RemoveEventListener(ls, type, fn, options) == ls \ {Listener(type, fn, options)}

\* el.contains(target): target is el or a descendant of el
Contains(el, target) == el = target \/ (el = "e1" /\ target = "c1")

\* The elements an event dispatched at target passes through
Path(target) == {el \in Elem : Contains(el, target)}

\* document.querySelectorAll of a selector list, given as its comma-separated
\* parts: an empty part is a syntax error, otherwise the elements matching a part
QuerySelectorAll(parts) ==
    IF \E k \in 1..Len(parts) : parts[k] = ""
    THEN [threw |-> TRUE, els |-> {}]
    ELSE [threw |-> FALSE,
          els |-> {el \in Elem : \E k \in 1..Len(parts) : parts[k] \in classes[el]}]

\* Array.prototype.join(','), as the comma-separated parts of the result:
\* undefined joins as the empty string
Join(selectors) ==
    [k \in 1..Len(selectors) |-> IF selectors[k] = Undefined THEN "" ELSE selectors[k]]

\* The joined string is '' when there is nothing to join or one empty part
IsEmptyString(parts) == Len(parts) = 0 \/ parts = <<"">>

-----------------------------------------------------------------------------
(* LockScroll *)

GetPassiveOptions == IF hasPassiveEvents THEN {<<"passive", FALSE>>} ELSE {}

\* Mutant of ObserveDocumentTouchMoveEvent: the removal names the capture
\* phase, so it matches no listener that was added
ObserveDocumentTouchMoveEventCapture(wl, type) ==
    IF type = "addEventListener"
    THEN AddEventListener(wl, "touchmove", PreventDefaultFn, GetPassiveOptions)
    ELSE RemoveEventListener(wl, "touchmove", PreventDefaultFn, {<<"capture", TRUE>>})

ObserveDocumentTouchMoveEvent(wl, type) ==
    IF type = "addEventListener"
    THEN AddEventListener(wl, "touchmove", PreventDefaultFn, GetPassiveOptions)
    ELSE RemoveEventListener(wl, "touchmove", PreventDefaultFn, GetPassiveOptions)

\* The mutable state the methods work on, as one record
Heap ==
    [eventInit |-> eventInit, windowListeners |-> windowListeners,
     elListeners |-> elListeners, overRangeEventMap |-> overRangeEventMap,
     touch |-> touch]

\* Mutant of ElTouchStart: the guard is inverted
ElTouchStartInverted(h) ==
    IF h.eventInit
    THEN [h EXCEPT !.windowListeners =
                       ObserveDocumentTouchMoveEvent(h.windowListeners, "addEventListener"),
                   !.eventInit = TRUE]
    ELSE h

ElTouchStart(h) ==
    IF ~h.eventInit
    THEN [h EXCEPT !.windowListeners =
                       ObserveDocumentTouchMoveEvent(h.windowListeners, "addEventListener"),
                   !.eventInit = TRUE]
    ELSE h

\* Mutant of ElTouchEnd: a reference count, the canceller is removed only when
\* the gesture that ends is the last one in flight
ElTouchEndCounted(h) ==
    IF h.eventInit /\ Cardinality(active) <= 1
    THEN [h EXCEPT !.windowListeners =
                       ObserveDocumentTouchMoveEvent(h.windowListeners, "removeEventListener"),
                   !.eventInit = FALSE]
    ELSE h

ElTouchEnd(h) ==
    IF h.eventInit
    THEN [h EXCEPT !.windowListeners =
                       ObserveDocumentTouchMoveEvent(h.windowListeners, "removeEventListener"),
                   !.eventInit = FALSE]
    ELSE h

\* Mutant of SetAdd: the registry kept as an array that is pushed to
SetAddPush(list, i) == Append(list, i)

\* lockedList.add(this) and lockedList.delete(this) on an insertion-ordered Set
SetAdd(list, i) ==
    IF \E k \in 1..Len(list) : list[k] = i THEN list ELSE Append(list, i)
SetDelete(list, i) == SelectSeq(list, LAMBDA x : x # i)
SetOf(list) == {list[k] : k \in 1..Len(list)}

GetCurScrollEls(i) ==
    IF Truthy(selector[i])
    THEN QuerySelectorAll(<<selector[i]>>).els
    ELSE {}

\* The loop of getScrollEls: selectors.find returns the element found, so an
\* undefined selector is never "found" and is pushed every time
RECURSIVE CollectSelectors(_, _)
CollectSelectors(list, selectors) ==
    IF list = <<>>
    THEN selectors
    ELSE LET curSelector == selector[Head(list)]
             found == \E k \in 1..Len(selectors) :
                          selectors[k] = curSelector /\ Truthy(selectors[k])
         IN  CollectSelectors(Tail(list),
                 IF found THEN selectors ELSE Append(selectors, curSelector))

GetScrollEls ==
    LET selectorStr == Join(CollectSelectors(lockedList, <<>>))
    IN  IF IsEmptyString(selectorStr)
        THEN [threw |-> FALSE, els |-> {}]
        ELSE QuerySelectorAll(selectorStr)

\* LockScroll.preventDefault(e): "return" leaves the event alone, "prevent"
\* calls e.preventDefault(), "throw" is the query's SyntaxError leaving the
\* listener before e.preventDefault() is reached
PreventDefault(target) ==
    LET scrollEls == GetScrollEls
    IN  IF scrollEls.threw THEN "throw"
        ELSE IF \E el \in scrollEls.els : Contains(el, target) THEN "return"
        ELSE "prevent"

BindTouchEvents(h, i, id) ==
    LET touchStart == Bind("elTouchStart", id)
        touchEnd == Bind("elTouchEnd", id)
    IN  [h EXCEPT !.elListeners =
            [el \in Elem |->
                IF el \in GetCurScrollEls(i)
                THEN AddEventListener(
                         AddEventListener(h.elListeners[el], "touchstart", touchStart, {}),
                         "touchend", touchEnd, {})
                ELSE h.elListeners[el]]]

\* Mutant of UnbindTouchEvents: the closing touchEnd() call is missing
UnbindTouchEventsNoFallback(h, i, id) ==
    LET touchStart == Bind("elTouchStart", id)
        touchEnd == Bind("elTouchEnd", id)
    IN  [h EXCEPT !.elListeners =
            [el \in Elem |->
                IF el \in GetCurScrollEls(i)
                THEN RemoveEventListener(
                         RemoveEventListener(h.elListeners[el], "touchstart", touchStart, {}),
                         "touchend", touchEnd, {})
                ELSE h.elListeners[el]]]

\* Mutant of UnbindTouchEvents: the closing touchEnd() call is made only for
\* an instance that was in the registry when unlock() was called
UnbindTouchEventsFallbackIfLocked(h, i, id) ==
    LET touchStart == Bind("elTouchStart", id)
        touchEnd == Bind("elTouchEnd", id)
        removed ==
            [h EXCEPT !.elListeners =
                [el \in Elem |->
                    IF el \in GetCurScrollEls(i)
                    THEN RemoveEventListener(
                             RemoveEventListener(h.elListeners[el], "touchstart", touchStart, {}),
                             "touchend", touchEnd, {})
                    ELSE h.elListeners[el]]]
    IN  IF i \in SetOf(lockedList) THEN ElTouchEnd(removed) ELSE removed

UnbindTouchEvents(h, i, id) ==
    LET touchStart == Bind("elTouchStart", id)
        touchEnd == Bind("elTouchEnd", id)
        removed ==
            [h EXCEPT !.elListeners =
                [el \in Elem |->
                    IF el \in GetCurScrollEls(i)
                    THEN RemoveEventListener(
                             RemoveEventListener(h.elListeners[el], "touchstart", touchStart, {}),
                             "touchend", touchEnd, {})
                    ELSE h.elListeners[el]]]
    IN  ElTouchEnd(removed)

\* const touch: ITouch = {} as ITouch: no origin recorded yet
NoTouch == [set |-> FALSE, originX |-> 0, originY |-> 0]

\* The tracker closure made by lock() call id for element el
TrackerKey(id, el) == <<id, el>>
TouchStartFn(key) == Fn("touchStartEvent", key[1], key[2])
TouchMoveFn(key) == Fn("touchMoveEvent", key[1], key[2])

\* overRangeEventMap as a set of [key, value] entries, one per key; get returns
\* the set of the values under the key, empty or a singleton
MapGet(m, el) == {e.value : e \in {x \in m : x.key = el}}

LockScrollWhenOverRange(h, i, id) ==
    LET scrollEls == GetCurScrollEls(i)
    IN  [h EXCEPT
            !.elListeners =
                [el \in Elem |->
                    IF el \in scrollEls
                    THEN AddEventListener(
                             AddEventListener(h.elListeners[el], "touchstart",
                                              TouchStartFn(TrackerKey(id, el)), {}),
                             "touchmove", TouchMoveFn(TrackerKey(id, el)), GetPassiveOptions)
                    ELSE h.elListeners[el]],
            !.touch =
                [k \in DOMAIN h.touch \cup {TrackerKey(id, el) : el \in scrollEls} |->
                    IF k \in DOMAIN h.touch THEN h.touch[k] ELSE NoTouch],
            !.overRangeEventMap =
                {x \in h.overRangeEventMap : x.key \notin scrollEls}
                    \cup {[key |-> el,
                           value |-> [touchStartEvent |-> TouchStartFn(TrackerKey(id, el)),
                                      touchMoveEvent |-> TouchMoveFn(TrackerKey(id, el))]]
                          : el \in scrollEls}]

\* A closure whose listeners are all removed is unreachable: its touch object is dropped
Attached(ls, key) ==
    \E l \in ls[key[2]] : l.fn = TouchStartFn(key) \/ l.fn = TouchMoveFn(key)

UnlockScrollWhenOverRange(h, i) ==
    LET scrollEls == GetCurScrollEls(i)
        ls == [el \in Elem |->
                  IF el \in scrollEls
                  THEN h.elListeners[el]
                           \ UNION {{Listener("touchstart", v.touchStartEvent, {}),
                                     Listener("touchmove", v.touchMoveEvent, GetPassiveOptions)}
                                    : v \in MapGet(h.overRangeEventMap, el)}
                  ELSE h.elListeners[el]]
    IN  [h EXCEPT
            !.elListeners = ls,
            !.touch = [k \in {x \in DOMAIN h.touch : Attached(ls, x)} |-> h.touch[k]],
            !.overRangeEventMap = {x \in h.overRangeEventMap : x.key \notin scrollEls}]

\* Mutant of TouchStartEvent: the single-finger test is missing
TouchStartEventAnyCount(t, n, x, y) == [set |-> TRUE, originX |-> x, originY |-> y]

\* touchStartEvent (lines 160-167): the new value of the closure's touch object
TouchStartEvent(t, n, x, y) ==
    IF n = 1 THEN [set |-> TRUE, originX |-> x, originY |-> y] ELSE t

Abs(v) == IF v < 0 THEN -v ELSE v

\* Mutant of TouchMoveEvent: a tie between the axes counts as vertical
TouchMoveEventTieVertical(t, n, x, y, g) ==
    IF n = 1
    THEN LET nan == ~t.set
             offsetX == x - t.originX
             offsetY == y - t.originY
             absOffsetX == Abs(offsetX)
             absOffsetY == Abs(offsetY)
             invalidScroll == ~nan /\ absOffsetX < 3 /\ absOffsetY < 3
         IN  IF invalidScroll THEN TRUE
             ELSE IF ~nan /\ absOffsetY >= absOffsetX
             THEN (g.scrollTop <= 0 /\ offsetY > 0)
                      \/ (g.scrollTop + g.clientHeight >= g.scrollHeight /\ offsetY < 0)
             ELSE ~nan /\ ((g.scrollLeft <= 0 /\ offsetX > 0)
                      \/ (g.scrollLeft + g.clientWidth >= g.scrollWidth /\ offsetX < 0))
    ELSE FALSE

\* Mutant of TouchMoveEvent: a short move is not returned early but goes on to
\* the boundary tests
TouchMoveEventNoThreshold(t, n, x, y, g) ==
    IF n = 1
    THEN LET nan == ~t.set
             offsetX == x - t.originX
             offsetY == y - t.originY
             absOffsetX == Abs(offsetX)
             absOffsetY == Abs(offsetY)
         IN  IF ~nan /\ absOffsetY > absOffsetX
             THEN (g.scrollTop <= 0 /\ offsetY > 0)
                      \/ (g.scrollTop + g.clientHeight >= g.scrollHeight /\ offsetY < 0)
             ELSE ~nan /\ ((g.scrollLeft <= 0 /\ offsetX > 0)
                      \/ (g.scrollLeft + g.clientWidth >= g.scrollWidth /\ offsetX < 0))
    ELSE FALSE

\* touchMoveEvent (lines 170-201): TRUE iff it calls e.preventDefault().
\* With no origin recorded the offsets are NaN and every comparison is false
TouchMoveEvent(t, n, x, y, g) ==
    IF n = 1
    THEN LET nan == ~t.set
             offsetX == x - t.originX
             offsetY == y - t.originY
             absOffsetX == Abs(offsetX)
             absOffsetY == Abs(offsetY)
             invalidScroll == ~nan /\ absOffsetX < 3 /\ absOffsetY < 3
         IN  IF invalidScroll THEN TRUE
             ELSE IF ~nan /\ absOffsetY > absOffsetX
             THEN (g.scrollTop <= 0 /\ offsetY > 0)
                      \/ (g.scrollTop + g.clientHeight >= g.scrollHeight /\ offsetY < 0)
             ELSE ~nan /\ ((g.scrollLeft <= 0 /\ offsetX > 0)
                      \/ (g.scrollLeft + g.clientWidth >= g.scrollWidth /\ offsetX < 0))
    ELSE FALSE

-----------------------------------------------------------------------------
(* Operations *)

Store(h) ==
    /\ eventInit' = h.eventInit
    /\ windowListeners' = h.windowListeners
    /\ elListeners' = h.elListeners
    /\ overRangeEventMap' = h.overRangeEventMap
    /\ touch' = h.touch

\* The options of an operation that is not a construction
NoOpt == [given |-> FALSE, selector |-> "-"]

\* The record of an operation: what it was given (opt: the argument of a
\* construction), what the listeners of a touchmove did (doc: the window's
\* listener; ran, prevented: the trackers that ran and those that called
\* e.preventDefault()), and eventInit before it
Op(op, inst, target, n, pt, g, doc, ran, prevented) ==
    [op |-> op, inst |-> inst, target |-> target, n |-> n, x |-> pt[1], y |-> pt[2],
     geom |-> g, doc |-> doc, ran |-> ran, prevented |-> prevented,
     wasInit |-> eventInit, opt |-> NoOpt]

\* The state once the module is loaded. The passive probe (lines 44-64) tests
\* only typeof window, so it can set hasPassiveEvents in a host whose window
\* has no document
Init ==
    /\ docExists \in BOOLEAN
    /\ hasPassiveEvents \in BOOLEAN
    /\ selector = [i \in Inst |-> NotConstructed]
    /\ lockedList = <<>>
    /\ eventInit = FALSE
    /\ overRangeEventMap = {}
    /\ windowListeners = {}
    /\ elListeners = [el \in Elem |-> {}]
    /\ touch = <<>>
    /\ nextId = 1
    /\ classes = [el \in Elem |->
                     IF el = "e1" THEN {".can-scroll"} ELSE IF el = "e2" THEN {".a"} ELSE {}]
    /\ lastCall = [i \in Inst |-> "none"]
    /\ owner = <<>>
    /\ active = {}
    /\ snapshot = [i \in Inst |-> {}]
    /\ last = Op("init", "-", "-", 0, <<0, 0>>, NoGeom, "absent", {}, {})

\* new LockScroll(opt); the instances are named in the order of their construction
Construct(i, opt) ==
    /\ selector[i] = NotConstructed
    /\ i = "i2" => selector["i1"] # NotConstructed
    /\ selector' = [selector EXCEPT ![i] = Constructor(opt)]
    /\ last' = [Op("construct", i, "-", 0, <<0, 0>>, NoGeom, "absent", {}, {})
                    EXCEPT !.opt = opt]
    /\ UNCHANGED <<docExists, hasPassiveEvents, lockedList, eventInit, overRangeEventMap,
                   windowListeners, elListeners, touch, nextId, classes, lastCall, owner,
                   active, snapshot>>

\* Mutant of Lock: the early return without a document is missing
LockNoDocumentCheck(i) ==
    /\ selector[i] # NotConstructed
    /\ nextId <= MaxLocks
    /\ lockedList' = SetAdd(lockedList, i)
    /\ Store(LockScrollWhenOverRange(BindTouchEvents(Heap, i, nextId), i, nextId))
    /\ nextId' = nextId + 1
    /\ owner' = Append(owner, i)
    /\ lastCall' = [lastCall EXCEPT ![i] = "lock"]
    /\ last' = Op("lock", i, "-", 0, <<0, 0>>, NoGeom, "absent", {}, {})
    /\ snapshot' = [snapshot EXCEPT ![i] = GetCurScrollEls(i)]
    /\ UNCHANGED <<docExists, hasPassiveEvents, selector, classes, active>>

\* lock()
Lock(i) ==
    /\ selector[i] # NotConstructed
    /\ nextId <= MaxLocks
    /\ lockedList' = SetAdd(lockedList, i)
    /\ IF ~docExists
       THEN Store(Heap)
       ELSE Store(LockScrollWhenOverRange(BindTouchEvents(Heap, i, nextId), i, nextId))
    /\ nextId' = nextId + 1
    /\ owner' = Append(owner, i)
    /\ lastCall' = [lastCall EXCEPT ![i] = "lock"]
    /\ last' = Op("lock", i, "-", 0, <<0, 0>>, NoGeom, "absent", {}, {})
    /\ snapshot' = [snapshot EXCEPT ![i] = IF docExists THEN GetCurScrollEls(i) ELSE {}]
    /\ UNCHANGED <<docExists, hasPassiveEvents, selector, classes, active>>

\* unlock(); the functions it binds are new objects that are dropped when it returns
Unlock(i) ==
    /\ selector[i] # NotConstructed
    /\ lockedList' = SetDelete(lockedList, i)
    /\ IF ~docExists
       THEN Store(Heap)
       ELSE Store(UnlockScrollWhenOverRange(UnbindTouchEvents(Heap, i, nextId), i))
    /\ lastCall' = [lastCall EXCEPT ![i] = "unlock"]
    /\ last' = Op("unlock", i, "-", 0, <<0, 0>>, NoGeom, "absent", {}, {})
    /\ UNCHANGED <<docExists, hasPassiveEvents, selector, nextId, classes, owner, active,
                   snapshot>>

\* The listeners of one type that an event dispatched at target reaches
Reached(target, type) ==
    UNION {{l \in elListeners[el] : l.type = type} : el \in Path(target)}

\* A touchstart event dispatched at target, carrying n target touches, the
\* first at pt
TouchStart(target, n, pt) ==
    /\ docExists
    /\ target \notin active
    /\ LET fired == Reached(target, "touchstart")
           h1 == IF \E l \in fired : l.fn.name = "elTouchStart"
                 THEN ElTouchStart(Heap) ELSE Heap
           h2 == [h1 EXCEPT !.touch =
                     [k \in DOMAIN touch |->
                         IF \E l \in fired : l.fn = TouchStartFn(k)
                         THEN TouchStartEvent(touch[k], n, pt[1], pt[2])
                         ELSE touch[k]]]
       IN  Store(h2)
    /\ active' = active \cup {target}
    /\ last' = Op("touchstart", "-", target, n, pt, NoGeom, "absent", {}, {})
    /\ UNCHANGED <<docExists, hasPassiveEvents, selector, lockedList, nextId, classes,
                   lastCall, owner, snapshot>>

\* A touchmove event dispatched at target: the trackers on its path run, then
\* the window's listener if it is attached
TouchMove(target, n, pt, g) ==
    /\ docExists
    /\ target \in active
    /\ LET fired == Reached(target, "touchmove")
           ran == {k \in DOMAIN touch : \E l \in fired : l.fn = TouchMoveFn(k)}
           prevented == {k \in ran : TouchMoveEvent(touch[k], n, pt[1], pt[2], g)}
           doc == IF \E l \in windowListeners :
                         l.type = "touchmove" /\ l.fn = PreventDefaultFn
                  THEN PreventDefault(target) ELSE "absent"
       IN  last' = Op("touchmove", "-", target, n, pt, g, doc, ran, prevented)
    /\ UNCHANGED <<docExists, hasPassiveEvents, selector, lockedList, eventInit,
                   overRangeEventMap, windowListeners, elListeners, touch, nextId,
                   classes, lastCall, owner, active, snapshot>>

\* A touchend event dispatched at target
TouchEnd(target) ==
    /\ docExists
    /\ target \in active
    /\ LET fired == Reached(target, "touchend")
       IN  Store(IF \E l \in fired : l.fn.name = "elTouchEnd"
                 THEN ElTouchEnd(Heap) ELSE Heap)
    /\ active' = active \ {target}
    /\ last' = Op("touchend", "-", target, 0, <<0, 0>>, NoGeom, "absent", {}, {})
    /\ UNCHANGED <<docExists, hasPassiveEvents, selector, lockedList, nextId, classes,
                   lastCall, owner, snapshot>>

\* The page adds class s to el or removes it
DomChange(el, s) ==
    /\ docExists
    /\ classes' = [classes EXCEPT ![el] =
                      IF s \in classes[el] THEN classes[el] \ {s} ELSE classes[el] \cup {s}]
    /\ last' = Op("dom", "-", el, 0, <<0, 0>>, NoGeom, "absent", {}, {})
    /\ UNCHANGED <<docExists, hasPassiveEvents, selector, lockedList, eventInit,
                   overRangeEventMap, windowListeners, elListeners, touch, nextId,
                   lastCall, owner, active, snapshot>>

Next ==
    \/ \E i \in Inst, opt \in Opts : Construct(i, opt)
    \/ \E i \in Inst : Lock(i)
    \/ \E i \in Inst : Unlock(i)
    \/ \E t \in TargetsMain, n \in TouchCountsMain, pt \in StartPointsMain :
           TouchStart(t, n, pt)
    \/ \E t \in TargetsMain, n \in TouchCountsMain, pt \in MovePointsMain, g \in GeomsMain :
           TouchMove(t, n, pt, g)
    \/ \E t \in TargetsMain : TouchEnd(t)

\* The program in a page whose overlays are fixed: construction, lock(), unlock()
\* and touch events in any order
Spec == Init /\ [][Next]_vars

\* The program in a page that changes under it: construction, lock(), unlock()
\* and DOM mutations in any order
NextDom ==
    \/ \E i \in Inst, opt \in Opts : Construct(i, opt)
    \/ \E i \in Inst : Lock(i)
    \/ \E i \in Inst : Unlock(i)
    \/ \E el \in Mutable, s \in Selectors : DomChange(el, s)

SpecDom == Init /\ [][NextDom]_vars

\* The heap before any call, and after i1.lock() and then i2.lock()
EmptyHeap ==
    [eventInit |-> FALSE, windowListeners |-> {}, elListeners |-> [el \in Elem |-> {}],
     overRangeEventMap |-> {}, touch |-> <<>>]
LockedHeap(insts) ==
    LET h1 == LockScrollWhenOverRange(BindTouchEvents(EmptyHeap, "i1", 1), "i1", 1)
    IN  IF "i2" \in insts
        THEN LockScrollWhenOverRange(BindTouchEvents(h1, "i2", 2), "i2", 2)
        ELSE h1

\* The state after the instances `insts` were constructed with `sel` and locked
\* in order, in a page with a document
InitLocked(insts, sels) ==
    /\ docExists = TRUE
    /\ hasPassiveEvents \in BOOLEAN
    /\ selector \in {f \in [Inst -> sels \cup {NotConstructed}] :
                         \A i \in Inst : f[i] = NotConstructed <=> i \notin insts}
    /\ classes = [el \in Elem |->
                     IF el = "e1" THEN {".can-scroll"} ELSE IF el = "e2" THEN {".a"} ELSE {}]
    /\ lockedList = (IF "i2" \in insts THEN <<"i1", "i2">> ELSE <<"i1">>)
    /\ eventInit = LockedHeap(insts).eventInit
    /\ windowListeners = LockedHeap(insts).windowListeners
    /\ elListeners = LockedHeap(insts).elListeners
    /\ overRangeEventMap = LockedHeap(insts).overRangeEventMap
    /\ touch = LockedHeap(insts).touch
    /\ nextId = Cardinality(insts) + 1
    /\ lastCall = [i \in Inst |-> IF i \in insts THEN "lock" ELSE "none"]
    /\ owner = lockedList
    /\ active = {}
    /\ snapshot = [i \in Inst |-> IF i \in insts THEN GetCurScrollEls(i) ELSE {}]
    /\ last = Op("lock", lockedList[Len(lockedList)], "-", 0, <<0, 0>>, NoGeom,
                 "absent", {}, {})

\* Touch events of every kind over two locked instances: every target, every
\* touch-point count, gestures overlapping freely
InitTouch == InitLocked({"i1", "i2"}, {".can-scroll", ".a", Undefined})

NextTouch ==
    \/ \E t \in Elem, n \in TouchCounts, pt \in StartPointsMain : TouchStart(t, n, pt)
    \/ \E t \in Elem, n \in TouchCounts, pt \in MovePointsTouch, g \in GeomsMain :
           TouchMove(t, n, pt, g)
    \/ \E t \in Elem : TouchEnd(t)

SpecTouch == InitTouch /\ [][NextTouch]_vars

\* One tracker on e1, touched through its child, with every origin, offset and
\* scroll geometry
InitTracker == InitLocked({"i1"}, {".can-scroll"})

NextTracker ==
    \/ \E t \in TargetsTracker, n \in TouchCounts, pt \in OriginsFull : TouchStart(t, n, pt)
    \/ \E t \in TargetsTracker, n \in TouchCounts, pt \in PointsFull, g \in GeomsFull :
           TouchMove(t, n, pt, g)
    \/ \E t \in TargetsTracker : TouchEnd(t)

SpecTracker == InitTracker /\ [][NextTracker]_vars

-----------------------------------------------------------------------------
(* Properties *)

\* The elements matched now by the selector of some locked instance
Permitted == UNION {GetCurScrollEls(i) : i \in SetOf(lockedList)}

\* target is a permitted element or a descendant of one
InPermitted(target) == \E el \in Permitted : Contains(el, target)

\* The window carries the touchmove canceller
InterceptorAttached ==
    \E l \in windowListeners : l.type = "touchmove" /\ l.fn.name = "preventDefault"

\* The gesture-start / gesture-end listeners on el that calls of instance i attached
GestureListenersOf(i, el) ==
    {l \in elListeners[el] :
        l.fn.name \in {"elTouchStart", "elTouchEnd"} /\ owner[l.fn.id] = i}

\* The tracker listeners on el that calls of instance i attached
TrackerListenersOf(i, el) ==
    {l \in elListeners[el] :
        l.fn.name \in {"touchStartEvent", "touchMoveEvent"} /\ owner[l.fn.id] = i}

\* C1: the registry holds exactly the instances whose most recent lifecycle
\* call was lock(), each once: a repeated lock() or unlock() does not change
\* its size
C1_RegistryIsLastLocked ==
    /\ SetOf(lockedList) = {i \in Inst : lastCall[i] = "lock"}
    /\ Len(lockedList) = Cardinality(SetOf(lockedList))

\* i1 was locked twice, i2 was unlocked last, and the registry holds i1 once
C1_Witness ==
    /\ owner = <<"i1", "i1">>
    /\ lastCall = [i \in Inst |-> IF i = "i1" THEN "lock" ELSE "unlock"]
    /\ lockedList = <<"i1">>

\* C2: in a DOM context, right after unlock() returns the interceptor is
\* uninstalled: eventInit is false and the window has no touchmove canceller
C2_UnlockUninstalls ==
    (last.op = "unlock" /\ docExists) => (~eventInit /\ ~InterceptorAttached)

\* unlock() returned while a gesture was in flight and the interceptor was
\* installed before the call
C2_Witness ==
    /\ last.op = "unlock"
    /\ docExists
    /\ last.wasInit
    /\ active # {}
    /\ ~eventInit

\* C3: after lock() and then unlock() on an instance, with the same elements
\* matching, no matched element still carries a touchstart or touchend
\* listener that the instance's lock() attached
C3_UnlockRemovesGestureListeners ==
    (last.op = "unlock" /\ docExists /\ snapshot[last.inst] = GetCurScrollEls(last.inst))
        => \A el \in snapshot[last.inst] : GestureListenersOf(last.inst, el) = {}

\* C4: the interceptor is installed only if a gesture is in flight on an
\* element permitted by a locked instance
C4_InstalledOnlyDuringPermittedGesture ==
    eventInit => \E t \in active : InPermitted(t)

\* C5: a document-level touchmove that reaches the installed interceptor is
\* suppressed if its target is outside every permitted element, and is left
\* alone if its target is a permitted element or a descendant of one
C5_InterceptorDecision ==
    (last.op = "touchmove" /\ last.doc # "absent")
        => /\ ~InPermitted(last.target) => last.doc = "prevent"
           /\ InPermitted(last.target) => last.doc # "prevent"

\* The offsets of the latest event from the origin tracker k recorded
OffsetX(k) == last.x - touch[k].originX
OffsetY(k) == last.y - touch[k].originY
SubThreshold(k) == Abs(OffsetX(k)) < 3 /\ Abs(OffsetY(k)) < 3

\* The vertical and the horizontal boundary pinned against the move
PinnedVertical(k) ==
    \/ last.geom.scrollTop <= 0 /\ OffsetY(k) > 0
    \/ last.geom.scrollTop + last.geom.clientHeight >= last.geom.scrollHeight
           /\ OffsetY(k) < 0
PinnedHorizontal(k) ==
    \/ last.geom.scrollLeft <= 0 /\ OffsetX(k) > 0
    \/ last.geom.scrollLeft + last.geom.clientWidth >= last.geom.scrollWidth
           /\ OffsetX(k) < 0

\* C6: a single-finger touchmove that is not sub-threshold is suppressed by a
\* tracker iff the boundary of the dominant axis is pinned against the move;
\* the move is vertical iff |offsetY| > |offsetX|, a tie is horizontal, and
\* the other axis plays no part
C6_DominantAxisDecides ==
    (last.op = "touchmove" /\ last.n = 1)
        => \A k \in last.ran :
               (touch[k].set /\ ~SubThreshold(k))
                   => (k \in last.prevented
                          <=> IF Abs(OffsetY(k)) > Abs(OffsetX(k))
                              THEN PinnedVertical(k)
                              ELSE PinnedHorizontal(k))

\* A tie of the two offsets, above the threshold, with the vertical boundary
\* pinned and the horizontal one free: horizontal, so not suppressed
C6_Witness ==
    /\ last.op = "touchmove"
    /\ last.n = 1
    /\ \E k \in last.ran :
           /\ touch[k].set
           /\ Abs(OffsetY(k)) = Abs(OffsetX(k))
           /\ Abs(OffsetX(k)) >= 3
           /\ PinnedVertical(k)
           /\ ~PinnedHorizontal(k)
           /\ k \notin last.prevented

\* C7: a single-finger touchmove whose offsets from the recorded origin are
\* both below 3 is suppressed by the tracker at every scroll position
C7_SubThresholdSuppressed ==
    (last.op = "touchmove" /\ last.n = 1)
        => \A k \in last.ran :
               (touch[k].set /\ SubThreshold(k)) => k \in last.prevented

\* A short move that is not zero, on an element in the middle of its scroll
\* range in both directions, suppressed
C7_Witness ==
    /\ last.op = "touchmove"
    /\ last.n = 1
    /\ last.geom = Geom(300, 300, 900, 300, 300, 900)
    /\ \E k \in last.prevented :
           touch[k].set /\ SubThreshold(k) /\ Abs(OffsetY(k)) = 2

\* C8: a touchstart or touchmove carrying two or more touch points leaves
\* every recorded origin as it was and is suppressed by no tracker
C8_MultiTouchIgnored ==
    [][(last'.op \in {"touchstart", "touchmove"} /\ last'.n >= 2)
           => (touch' = touch /\ last'.prevented = {})]_vars

\* A two-finger touchstart at another point than the recorded origin of a
\* tracker it reached
C8_Witness ==
    /\ last.op = "touchstart"
    /\ last.n = 2
    /\ \E k \in DOMAIN touch :
           /\ Contains(k[2], last.target)
           /\ touch[k].set
           /\ <<touch[k].originX, touch[k].originY>> # <<last.x, last.y>>

\* The permitted-element query of the interceptor throws: the joined selector
\* list has an empty part beside another part
QueryThrows ==
    LET locked == SetOf(lockedList)
        unset == {i \in locked : selector[i] = Undefined}
        strings == {selector[i] : i \in locked \ unset}
    IN  unset # {} /\ Cardinality(unset) + Cardinality(strings) >= 2

\* C9 as stated: a touchstart whose touch-point count is not one leaves
\* eventInit as it was, and a document-level touchmove with such a count is
\* not suppressed
C9_OnlySingleFingerActs ==
    [][/\ (last'.op = "touchstart" /\ last'.n # 1) => eventInit' = eventInit
       /\ (last'.op = "touchmove" /\ last'.n # 1) => last'.doc # "prevent"]_vars

\* C9 amended: the gesture-start listener and the interceptor do not read the
\* touch-point count. A touchstart with a count other than one that reaches a
\* gesture-start listener leaves the interceptor installed; touchmoves that
\* follow one another on the same target get the same treatment from the
\* window's listener whatever their counts; and a touchmove with a count
\* other than one that the window's listener suppresses found the
\* interceptor attached and its target outside every permitted element
C9_CountNotRead ==
    [][/\ (last'.op = "touchstart" /\ last'.n # 1
               /\ \E l \in Reached(last'.target, "touchstart") : l.fn.name = "elTouchStart")
              => (eventInit' /\ InterceptorAttached')
       /\ (last.op = "touchmove" /\ last'.op = "touchmove"
               /\ last'.target = last.target)
              => last'.doc = last.doc
       /\ (last'.op = "touchmove" /\ last'.n # 1 /\ last'.doc = "prevent")
              => (InterceptorAttached /\ ~InPermitted(last'.target))]_vars

\* A touchmove without a single touch point, suppressed by an interceptor that
\* only touchstarts without a single touch point can have installed: no
\* tracker has an origin
C9_Witness ==
    /\ last.op = "touchmove"
    /\ last.n # 1
    /\ last.doc = "prevent"
    /\ DOMAIN touch # {}
    /\ \A k \in DOMAIN touch : ~touch[k].set

\* C10: a second lock() in a row on an instance leaves every element with as
\* many listeners as the first did, and an unlock() of a locked instance
\* leaves no listener of that instance on any element it matched
C10_LockIdempotentForListeners ==
    [][/\ (last'.op = "lock" /\ docExists /\ lastCall[last'.inst] = "lock")
              => \A el \in Elem :
                     Cardinality(elListeners'[el]) = Cardinality(elListeners[el])
       /\ (last'.op = "unlock" /\ docExists /\ lastCall[last'.inst] = "lock")
              => \A el \in snapshot[last'.inst] :
                     {l \in elListeners'[el] : owner[l.fn.id] = last'.inst} = {}]_vars

\* C11: wherever a document exists, the permitted-element resolution of the
\* interceptor completes without error and returns exactly the elements
\* matched now by the selector of some locked instance (none when the
\* registry is empty)
C11_ResolutionTotalAndExact ==
    docExists => (~GetScrollEls.threw /\ GetScrollEls.els = Permitted)

\* C12: an instance constructed without an argument, with an options object
\* that has no selector, or with the empty string as selector has the
\* selector '.can-scroll'; a non-empty selector option is stored unchanged
C12_SelectorDefaults ==
    last.op = "construct"
        => selector[last.inst] = (IF last.opt.given /\ Truthy(last.opt.selector)
                                  THEN last.opt.selector
                                  ELSE DefaultSelector)

\* C13: without a document, lock() and unlock() change only the membership of
\* the registry: the listener lists of the window and of every element, the
\* interceptor flag, the tracker map and the tracker state stay as they were,
\* and the call completes
C13_NoDocumentOnlyRegistry ==
    [][(~docExists /\ last'.op \in {"lock", "unlock"})
           => /\ eventInit' = eventInit
              /\ windowListeners' = windowListeners
              /\ elListeners' = elListeners
              /\ overRangeEventMap' = overRangeEventMap
              /\ touch' = touch
              /\ SetOf(lockedList') = (IF last'.op = "lock"
                                       THEN SetOf(lockedList) \cup {last'.inst}
                                       ELSE SetOf(lockedList) \ {last'.inst})]_vars

\* Without a document, two instances whose selectors match elements were
\* locked and the first was unlocked: the registry holds the second and
\* nothing else was touched
C13_Witness ==
    /\ ~docExists
    /\ last.op = "unlock"
    /\ owner = <<"i1", "i2">>
    /\ selector = [i \in Inst |-> IF i = "i1" THEN ".can-scroll" ELSE ".a"]
    /\ lockedList = <<"i2">>
    /\ \A el \in Elem : elListeners[el] = {}
    /\ windowListeners = {}
    /\ overRangeEventMap = {}

\* The attachments of the touchmove canceller on the window
CancellerAttachments ==
    {l \in windowListeners : l.type = "touchmove" /\ l.fn = PreventDefaultFn}

\* C14: eventInit is true iff the window carries the touchmove canceller, and
\* the window never carries more than one attachment of it
C14_FlagIffAttachedOnce ==
    /\ eventInit <=> InterceptorAttached
    /\ Cardinality(CancellerAttachments) <= 1

\* Two gestures are in flight on two instrumented elements, a lock() came
\* last, and the window carries the canceller once
C14_Witness ==
    /\ active = {"c1", "e2"}
    /\ \A t \in active : \E l \in Reached(t, "touchstart") : l.fn.name = "elTouchStart"
    /\ last.op = "lock"
    /\ eventInit
    /\ Cardinality(CancellerAttachments) = 1

\* C15: the interceptor is a toggle. Right after a touchstart that reached a
\* gesture-start listener the interceptor is installed, and right after a
\* touchend that reached a gesture-end listener it is uninstalled, however
\* many other gestures are in flight
C15_ToggleNotCount ==
    /\ (last.op = "touchstart"
            /\ \E l \in Reached(last.target, "touchstart") : l.fn.name = "elTouchStart")
           => (eventInit /\ InterceptorAttached)
    /\ (last.op = "touchend"
            /\ \E l \in Reached(last.target, "touchend") : l.fn.name = "elTouchEnd")
           => (~eventInit /\ ~InterceptorAttached)

\* Gestures overlapped on the two overlays; the touchend of the one on e1's
\* child uninstalled the interceptor while the gesture on e2 is still in flight
C15_Witness ==
    /\ last.op = "touchend"
    /\ last.target = "c1"
    /\ last.wasInit
    /\ ~eventInit
    /\ "e2" \in active
    /\ \E l \in elListeners["e2"] : l.fn.name = "elTouchStart"
    /\ \E l \in elListeners["e1"] : l.fn.name = "elTouchEnd"

\* C16: with the matching elements fixed, once unlock() of an instance has
\* returned, no element carries a tracker touchstart or touchmove listener
\* that a lock() call of that instance attached
C16_UnlockRemovesTrackers ==
    (last.op = "unlock" /\ docExists)
        => \A el \in Elem : TrackerListenersOf(last.inst, el) = {}

\* C17: unlock() tears down what lock() set up on the elements matched at
\* lock(): an element that matched the instance's selector at its lock() and
\* does not match it at unlock() carries, once unlock() has returned, none of
\* the instance's gesture listeners and tracker listeners, and its tracker
\* state and map entry are gone
C17_TeardownUsesSnapshot ==
    (last.op = "unlock" /\ docExists)
        => \A el \in snapshot[last.inst] \ GetCurScrollEls(last.inst) :
               /\ GestureListenersOf(last.inst, el) = {}
               /\ TrackerListenersOf(last.inst, el) = {}
               /\ \A k \in DOMAIN touch : ~(k[2] = el /\ owner[k[1]] = last.inst)
               /\ \A v \in MapGet(overRangeEventMap, el) :
                      owner[v.touchStartEvent.id] # last.inst

\* C18: while the registry is empty no touchmove is suppressed, neither by
\* the window's canceller nor by a tracker
C18_EmptyRegistrySuppressesNothing ==
    (lockedList = <<>> /\ last.op = "touchmove")
        => (last.doc # "prevent" /\ last.prevented = {})

\* C19: once unlock() of an instance has returned, every element that an
\* instance still in the registry instrumented at its latest lock() carries
\* at least one attached tracker move listener
C19_UnlockKeepsOthersTrackers ==
    (last.op = "unlock" /\ docExists)
        => \A j \in SetOf(lockedList) : \A el \in snapshot[j] :
               \E l \in elListeners[el] : l.fn.name = "touchMoveEvent"

\* Exactly one gesture is in flight, and it is on an element matched by the
\* selector of instance b or on a descendant of one
OnlyGestureOn(b) ==
    /\ Cardinality(active) = 1
    /\ \E t \in active : \E el \in GetCurScrollEls(b) : Contains(el, t)

\* C20 as stated: while exactly one gesture is in flight on an element of an
\* instance that is locked and stays locked, a lock() or unlock() call on
\* another instance leaves the interceptor installed
C20_InstalledUntilTouchEnd ==
    [][\A b \in SetOf(lockedList) \cap SetOf(lockedList') :
           (eventInit /\ OnlyGestureOn(b) /\ last'.op \in {"lock", "unlock"}
                /\ last'.inst # b)
               => eventInit']_vars

\* C20 amended: in that situation a lock() call on another instance leaves
\* the interceptor installed, an unlock() call on another instance uninstalls
\* it, and an uninstalled interceptor is installed by a touchstart only
C20_OtherUnlockUninstalls ==
    [][/\ \A b \in SetOf(lockedList) \cap SetOf(lockedList') :
              (eventInit /\ OnlyGestureOn(b) /\ last'.inst # b)
                  => /\ last'.op = "lock" => (eventInit' /\ InterceptorAttached')
                     /\ last'.op = "unlock" => (~eventInit' /\ ~InterceptorAttached')
       /\ (~eventInit /\ eventInit') => last'.op = "touchstart"]_vars

\* i1 is locked and the only gesture in flight is on the child of its
\* element; unlock() of i2, which was never locked, has uninstalled the
\* interceptor
C20_Witness ==
    /\ last.op = "unlock"
    /\ last.inst = "i2"
    /\ lastCall["i2"] = "unlock"
    /\ \A k \in 1..Len(owner) : owner[k] = "i1"
    /\ lockedList = <<"i1">>
    /\ active = {"c1"}
    /\ "e1" \in GetCurScrollEls("i1")
    /\ last.wasInit
    /\ ~eventInit

====
